---- MODULE Spec2Model ----
(***************************************************************************)
(* A model of the remote range reader (app/services/mediainfo.ts, both     *)
(* the prefetch variant and the direct variant of analyzeMedia) and of the *)
(* proxy gateway (workers/app.ts) it reads through.                       *)
(*                                                                         *)
(* A byte buffer is a window [from, from + len) of the origin's content,   *)
(* so two buffers hold the same bytes when they are the same window.       *)
(* Header values are sequences                                             *)
(* of characters (a word without digits is kept as one token), so that     *)
(* formatting a Range / Content-Range header and parsing it back are real  *)
(* computations.                                                           *)
(***************************************************************************)
EXTENDS Integers, Sequences, FiniteSets, TLC

VARIABLES
    variant,               \* which analyzeMedia of mediainfo.ts runs: "prefetch" | "direct"
    trueSize,              \* the byte length of the resource at the origin
    rpc,                   \* position of analyzeMedia
    fileSize,              \* const fileSize = await getSize()
    probeStatus,           \* response.status of the probe getSize() read
    curSize, curOffset,    \* arguments of the readChunk call in progress
    ret,                   \* what the last readChunk returned to the analyzer
    err,                   \* the Error analyzeMedia rejected with (its message)
    totalBytesDownloaded,  \* let totalBytesDownloaded
    fetchCount,            \* number of fetch(proxyUrl, ...) calls of the session
    lastStatus,            \* last onStatus(...) message
    closed,                \* number of mediainfo.close() calls
    results,               \* number of onResult(...) calls
    url,                   \* the url analyzeMedia was called with
    req,                   \* the inbound request the worker is serving
    upReq,                 \* the request the worker sent to the origin
    upResp,                \* const upstreamResponse = await fetch(targetUrl, ...)
    resp,                  \* the response the worker returned
    ppc,                   \* position of the worker's fetch handler
    analyses,              \* concurrent analyzeMedia invocations: the locals of each
    exchanges,             \* concurrent worker invocations: the locals of each
    env,                   \* context.cloudflare.env: AUTH_USER, AUTH_PASS
    jar,                   \* the browser's cookie jar: the mediapeek_session cookie
    appReq                 \* the request the application handler was called with

vars == <<variant, trueSize, rpc, fileSize, probeStatus, curSize, curOffset, ret, err,
          totalBytesDownloaded, fetchCount, lastStatus, closed, results, url,
          req, upReq, upResp, resp, ppc, analyses, exchanges, env, jar, appReq>>

\* the state of the concurrent invocations
concVars == <<analyses, exchanges>>

\* the state of the application routes and of the browser
appVars == <<env, jar, appReq>>

readerVars == <<variant, rpc, fileSize, probeStatus, curSize, curOffset, ret, err,
                totalBytesDownloaded, fetchCount, lastStatus, closed, results, url>>

-----------------------------------------------------------------------------
(* Bounds of the model *)

\* small sizes, offsets and lengths range over 0..MaxLen
MaxLen == 2
\* readChunk calls the analyzer makes in one session
MaxReads == 2

-----------------------------------------------------------------------------
(* Program constants *)

ESTIMATED_METADATA_WORKLOAD == 2 * 1024 * 1024

MIN_FETCH_SIZE == 256 * 1024

\* 1024 * 1024 * 1024 * 10 in the source; clamped to the largest integer the
\* model checker represents.  It only matters that it exceeds every file size.
UNKNOWN_SIZE_FALLBACK == 2147483647

PROXY_ENDPOINT == "/resources/proxy"

-----------------------------------------------------------------------------
(* Characters, numbers and their text *)

DigitChars == <<"0", "1", "2", "3", "4", "5", "6", "7", "8", "9">>

IsDigit(c) == \E d \in 1..10 : DigitChars[d] = c

DigitValue(c) == (CHOOSE d \in 1..10 : DigitChars[d] = c) - 1

\* String(n) / `${n}` of a non-negative integer
RECURSIVE Digits(_)
Digits(n) ==
    IF n < 10 THEN <<DigitChars[n + 1]>>
    ELSE Digits(n \div 10) \o <<DigitChars[(n % 10) + 1]>>

NaN == -1

\* length of the longest prefix of s made of digits
RECURSIVE DigitPrefixLen(_)
DigitPrefixLen(s) ==
    IF s = <<>> \/ ~IsDigit(Head(s)) THEN 0 ELSE 1 + DigitPrefixLen(Tail(s))

RECURSIVE DigitsValue(_, _)
DigitsValue(s, acc) ==
    IF s = <<>> THEN acc ELSE DigitsValue(Tail(s), acc * 10 + DigitValue(Head(s)))

\* parseInt(s, 10): the leading digits of s, NaN when there are none
ParseInt(s) ==
    LET n == DigitPrefixLen(s)
    IN  IF n = 0 THEN NaN ELSE DigitsValue(SubSeq(s, 1, n), 0)

\* s.match(/\/(\d+)$/): the captured digits, <<>> for no match (null)
MatchTotal(s) ==
    LET starts == {i \in 1..Len(s) :
                      /\ s[i] = "/"
                      /\ i < Len(s)
                      /\ \A j \in (i + 1)..Len(s) : IsDigit(s[j])}
    IN  IF starts = {} THEN <<>>
        ELSE LET i == CHOOSE k \in starts : \A m \in starts : k <= m
             IN  SubSeq(s, i + 1, Len(s))

-----------------------------------------------------------------------------
(* Headers: a map from lower-cased names to values *)

LowerCase(name) ==
    CASE name = "Host" -> "host"
      [] name = "Referer" -> "referer"
      [] name = "Origin" -> "origin"
      [] name = "Cookie" -> "cookie"
      [] name = "Range" -> "range"
      [] name = "Content-Length" -> "content-length"
      [] name = "Content-Range" -> "content-range"
      [] name = "Content-Type" -> "content-type"
      [] name = "Content-Disposition" -> "content-disposition"
      [] name = "Set-Cookie" -> "set-cookie"
      [] name = "Access-Control-Allow-Origin" -> "access-control-allow-origin"
      [] name = "Access-Control-Allow-Methods" -> "access-control-allow-methods"
      [] name = "Access-Control-Allow-Headers" -> "access-control-allow-headers"
      [] name = "Access-Control-Expose-Headers" -> "access-control-expose-headers"
      [] OTHER -> name

NoHeaders == [n \in {} |-> <<>>]

HHas(h, name) == LowerCase(name) \in DOMAIN h

\* Headers.get: the value, <<>> standing for null
HGet(h, name) == IF HHas(h, name) THEN h[LowerCase(name)] ELSE <<>>

HSet(h, name, value) ==
    [n \in DOMAIN h \cup {LowerCase(name)} |->
        IF n = LowerCase(name) THEN value ELSE h[n]]

HDelete(h, name) == [n \in DOMAIN h \ {LowerCase(name)} |-> h[n]]

\* set every entry of a plain object on h
HSetAll(h, obj) ==
    [n \in DOMAIN h \cup {LowerCase(k) : k \in DOMAIN obj} |->
        IF \E k \in DOMAIN obj : LowerCase(k) = n
        THEN obj[CHOOSE k \in DOMAIN obj : LowerCase(k) = n]
        ELSE h[n]]

\* new Headers(init)
NewHeaders(init) == HSetAll(NoHeaders, init)

-----------------------------------------------------------------------------
(* Byte buffers and the origin's content *)

Buffer(from, len) == [from |-> from, len |-> len]

EmptyBody == Buffer(0, 0)

\* Uint8Array.subarray(begin, end), for 0 <= begin <= end
Subarray(buf, begin, end) ==
    LET b == IF begin < buf.len THEN begin ELSE buf.len
        e == IF end < buf.len THEN end ELSE buf.len
    IN  Buffer(buf.from + b, IF e > b THEN e - b ELSE 0)

NoMsg == [kind |-> "none"]

Min(a, b) == IF a < b THEN a ELSE b

Max(a, b) == IF a > b THEN a ELSE b

-----------------------------------------------------------------------------
(* Requests, responses and URLs *)

MediaUrl == "https://origin.example/media.mp4"

OtherUrl == "http://cdn.example:8080/a.mkv"

BadUrl == "not a url"

\* new URL(u): ok = FALSE when the constructor throws
ParseURL(u) ==
    CASE u = MediaUrl -> [ok |-> TRUE, hostname |-> "origin.example",
                          origin |-> "https://origin.example"]
      [] u = OtherUrl -> [ok |-> TRUE, hostname |-> "cdn.example",
                          origin |-> "http://cdn.example:8080"]
      [] OTHER -> [ok |-> FALSE, hostname |-> "", origin |-> ""]

\* url.searchParams.get('url'): null when the parameter is absent
NullParam == [present |-> FALSE, value |-> ""]

Param(u) == [present |-> TRUE, value |-> u]

\* !targetUrl taken for a null check: the empty string passes
Falsy_nullOnly(p) == ~p.present

\* !targetUrl
Falsy(p) == ~p.present \/ p.value = ""

Request(method, pathname, targetUrl, headers) ==
    [kind |-> "request", method |-> method, pathname |-> pathname,
     targetUrl |-> targetUrl, headers |-> headers]

\* new Response(body, {status, statusText, headers}); text is a body given as a string
Response(status, statusText, headers, body, text) ==
    [kind |-> "response", status |-> status, statusText |-> statusText,
     headers |-> headers, body |-> body, text |-> text]

\* Response.ok
Ok(r) == r.status >= 200 /\ r.status <= 299

-----------------------------------------------------------------------------
(* The origin server: what it may answer to a request (environment) *)

RangeHeader(from, to) == <<"bytes=">> \o Digits(from) \o <<"-">> \o Digits(to)

\* the byte range a Range header value asks for
ParseRange(v) ==
    LET rest == Tail(v)
        n    == DigitPrefixLen(rest)
    IN  IF v = <<>> \/ Head(v) # "bytes=" \/ n = 0 \/ Len(rest) < n + 2
             \/ rest[n + 1] # "-"
        THEN [ok |-> FALSE, from |-> 0, to |-> 0]
        ELSE [ok |-> TRUE, from |-> ParseInt(rest),
              to |-> ParseInt(SubSeq(rest, n + 2, Len(rest)))]

ContentRange(from, to, total) ==
    <<"bytes", " ">> \o Digits(from) \o <<"-">> \o Digits(to) \o <<"/">> \o Digits(total)

ContentRangeNoTotal(from, to) ==
    <<"bytes", " ">> \o Digits(from) \o <<"-">> \o Digits(to) \o <<"/", "*">>

ContentRangeUnsatisfied(total) == <<"bytes", " ", "*", "/">> \o Digits(total)

\* headers an origin may send besides the sizing headers
ExtraHeaders ==
    [n \in {"set-cookie", "cache-control", "location", "content-encoding",
            "content-disposition", "content-type", "transfer-encoding",
            "connection", "keep-alive", "accept-ranges", "last-modified", "etag",
            "access-control-allow-origin"} |->
        CASE n = "set-cookie" -> <<"mediapeek_session=evil">>
          [] n = "cache-control" -> <<"public">>
          [] n = "location" -> <<"/elsewhere">>
          [] n = "content-encoding" -> <<"gzip">>
          [] n = "content-disposition" -> <<"attachment">>
          [] n = "content-type" -> <<"video/mp4">>
          [] n = "transfer-encoding" -> <<"chunked">>
          [] n = "connection" -> <<"keep-alive">>
          [] n = "keep-alive" -> <<"timeout=", "5">>
          [] n = "accept-ranges" -> <<"bytes">>
          [] n = "last-modified" -> <<"yesterday">>
          [] n = "etag" -> <<"abc">>
          [] OTHER -> <<"https://origin.example">>]

ExtraHeaderSets == {NoHeaders, ExtraHeaders}

\* the part of a body a method carries: HEAD answers have none
BodyFor(method, buf) == IF method = "HEAD" THEN EmptyBody ELSE buf

\* the answers of an origin that honours Range
RangeAnswers(r, S, extra) ==
    LET rng == ParseRange(HGet(r.headers, "Range"))
        end == Min(rng.to, S - 1)
        len == end - rng.from + 1
    IN  IF ~rng.ok \/ rng.to < rng.from
        THEN {Response(200, "OK", HSet(extra, "Content-Length", Digits(S)),
                       BodyFor(r.method, Buffer(0, S)), "")}
        ELSE IF rng.from >= S
        THEN {Response(416, "Range Not Satisfiable",
                       HSet(extra, "Content-Range", ContentRangeUnsatisfied(S)),
                       EmptyBody, "")}
        ELSE {Response(206, st,
                       HSet(HSet(extra, "Content-Length", Digits(len)), "Content-Range", cr),
                       BodyFor(r.method, Buffer(rng.from, len)), "") :
                <<st, cr>> \in {<<"Partial Content", ContentRange(rng.from, end, S)>>,
                                <<"", ContentRange(rng.from, end, S)>>,
                                <<"Partial Content", ContentRangeNoTotal(rng.from, end)>>}}

\* the answers of an origin that ignores Range and sends the whole resource
FullAnswers(r, S, extra) ==
    {Response(200, "OK", h, BodyFor(r.method, Buffer(0, S)), "") :
        h \in {HSet(extra, "Content-Length", Digits(S)),
               extra,
               HSet(HSet(extra, "Content-Length", Digits(S)), "Content-Range",
                    ContentRange(0, Max(S, 1) - 1, S))}}

\* the answers of an origin that refuses
ErrorAnswers(r, S, extra) ==
    {Response(404, st, extra, EmptyBody, "") : st \in {"Not Found", ""}}

OriginResponses(r, S) ==
    UNION {RangeAnswers(r, S, extra) \cup FullAnswers(r, S, extra)
             \cup ErrorAnswers(r, S, extra) : extra \in ExtraHeaderSets}

-----------------------------------------------------------------------------
(* The proxy gateway: the worker's fetch handler (workers/app.ts) *)

\* IsProxyPath with the exact match alone
IsProxyPath_exact(pathname) == pathname = <<PROXY_ENDPOINT>>

\* does the path select the proxy branch (pathname is a sequence of characters)
IsProxyPath(pathname) ==
    \/ pathname = <<PROXY_ENDPOINT>>
    \/ (Len(pathname) >= 1 /\ pathname[1] = PROXY_ENDPOINT)

corsHeaders ==
    [n \in {"Access-Control-Allow-Origin", "Access-Control-Allow-Methods",
            "Access-Control-Allow-Headers", "Access-Control-Expose-Headers"} |->
        CASE n = "Access-Control-Allow-Origin" -> <<"*">>
          [] n = "Access-Control-Allow-Methods" -> <<"GET, HEAD, OPTIONS">>
          [] n = "Access-Control-Allow-Headers" -> <<"Range, Content-Type, User-Agent">>
          [] OTHER -> <<"Content-Length, Content-Range, Content-Type, Accept-Ranges, Content-Disposition">>]

skipHeaders ==
    {"content-encoding", "content-length", "transfer-encoding", "connection",
     "keep-alive", "content-disposition", "content-type"}

\* UpstreamHeaders with the deletion of Cookie forgotten
UpstreamHeaders_keepCookie(request, upstreamUrl) ==
    LET h0 == NewHeaders(request.headers)
        h1 == HSet(h0, "Host", <<upstreamUrl.hostname>>)
        h2 == HSet(h1, "Referer", <<upstreamUrl.origin>>)
    IN  HDelete(h2, "Origin")

\* the headers of the request sent to the origin
UpstreamHeaders(request, upstreamUrl) ==
    LET h0 == NewHeaders(request.headers)
        h1 == HSet(h0, "Host", <<upstreamUrl.hostname>>)
        h2 == HSet(h1, "Referer", <<upstreamUrl.origin>>)
        h3 == HDelete(h2, "Origin")
    IN  HDelete(h3, "Cookie")

\* the loop copying the upstream headers that are not skipped
CopyUpstreamHeaders(up) ==
    [n \in {k \in DOMAIN up : LowerCase(k) \notin skipHeaders} |-> up[n]]

\* ResponseHeaders with the CORS headers set first, so that the copy overrides them
ResponseHeaders_corsFirst(upstreamResponse) ==
    LET h0 == HSetAll(NewHeaders(corsHeaders),
                      CopyUpstreamHeaders(upstreamResponse.headers))
        h1 == HDelete(h0, "content-disposition")
        h2 == HSet(h1, "content-type", <<"application/octet-stream">>)
        h3 == IF HHas(upstreamResponse.headers, "Content-Length")
              THEN HSet(h2, "Content-Length", HGet(upstreamResponse.headers, "Content-Length"))
              ELSE h2
    IN  IF HHas(upstreamResponse.headers, "Content-Range")
        THEN HSet(h3, "Content-Range", HGet(upstreamResponse.headers, "Content-Range"))
        ELSE h3

\* ResponseHeaders with the forced content type forgotten
ResponseHeaders_noType(upstreamResponse) ==
    LET h0 == CopyUpstreamHeaders(upstreamResponse.headers)
        h1 == HDelete(h0, "content-disposition")
        h3 == IF HHas(upstreamResponse.headers, "Content-Length")
              THEN HSet(h1, "Content-Length", HGet(upstreamResponse.headers, "Content-Length"))
              ELSE h1
        h4 == IF HHas(upstreamResponse.headers, "Content-Range")
              THEN HSet(h3, "Content-Range", HGet(upstreamResponse.headers, "Content-Range"))
              ELSE h3
    IN  HSetAll(h4, corsHeaders)

\* the headers of the response built from the upstream response
ResponseHeaders(upstreamResponse) ==
    LET h0 == CopyUpstreamHeaders(upstreamResponse.headers)
        h1 == HDelete(h0, "content-disposition")
        h2 == HSet(h1, "content-type", <<"application/octet-stream">>)
        h3 == IF HHas(upstreamResponse.headers, "Content-Length")
              THEN HSet(h2, "Content-Length", HGet(upstreamResponse.headers, "Content-Length"))
              ELSE h2
        h4 == IF HHas(upstreamResponse.headers, "Content-Range")
              THEN HSet(h3, "Content-Range", HGet(upstreamResponse.headers, "Content-Range"))
              ELSE h3
    IN  HSetAll(h4, corsHeaders)

ProxyErrorResponse ==
    Response(502, "", NewHeaders(corsHeaders), EmptyBody, "Proxy error")

\* EarlyResponse with the url check made before the OPTIONS check
EarlyResponse_urlFirst(request) ==
    IF Falsy(request.targetUrl)
    THEN Response(400, "", NewHeaders(corsHeaders), EmptyBody,
                  "Missing 'url' query parameter")
    ELSE IF request.method = "OPTIONS"
    THEN Response(200, "", NewHeaders(corsHeaders), EmptyBody, "")
    ELSE IF ~ParseURL(request.targetUrl.value).ok
    THEN ProxyErrorResponse
    ELSE NoMsg

\* the answer of the branches that return before any upstream request;
\* NoMsg when the handler goes on to the origin
EarlyResponse(request) ==
    IF request.method = "OPTIONS"
    THEN Response(200, "", NewHeaders(corsHeaders), EmptyBody, "")
    ELSE IF Falsy(request.targetUrl)
    THEN Response(400, "", NewHeaders(corsHeaders), EmptyBody,
                  "Missing 'url' query parameter")
    ELSE IF ~ParseURL(request.targetUrl.value).ok
    THEN ProxyErrorResponse
    ELSE NoMsg

\* fetch(targetUrl, {method, headers, redirect: 'follow'})
UpstreamRequest(request) ==
    [kind |-> "request", url |-> request.targetUrl.value, method |-> request.method,
     headers |-> UpstreamHeaders(request, ParseURL(request.targetUrl.value)),
     redirect |-> "follow"]

\* ForwardedResponse with the upstream status dropped (the Response default, 200)
ForwardedResponse_status200(upstreamResponse) ==
    Response(200, "", ResponseHeaders(upstreamResponse), upstreamResponse.body, "")

\* new Response(upstreamResponse.body, {status, statusText, headers: responseHeaders})
ForwardedResponse(upstreamResponse) ==
    Response(upstreamResponse.status, upstreamResponse.statusText,
             ResponseHeaders(upstreamResponse), upstreamResponse.body, "")

\* the handler from the arrival of the request to its first await or return
WorkerFetch ==
    /\ ppc = "idle"
    /\ req.kind = "request"
    /\ IsProxyPath(req.pathname)
    /\ IF EarlyResponse(req) # NoMsg
       THEN /\ resp' = EarlyResponse(req)
            /\ ppc' = "done"
            /\ UNCHANGED upReq
       ELSE /\ upReq' = UpstreamRequest(req)
            /\ ppc' = "forwarding"
            /\ UNCHANGED resp
    /\ UNCHANGED <<readerVars, trueSize, concVars, appVars, req, upResp>>

\* await fetch(targetUrl, ...) resolves: the upstream response is forwarded
WorkerUpstreamResponse ==
    /\ ppc = "forwarding"
    /\ \E upstreamResponse \in OriginResponses(upReq, trueSize) :
          /\ upResp' = upstreamResponse
          /\ resp' = ForwardedResponse(upstreamResponse)
    /\ ppc' = "done"
    /\ UNCHANGED <<readerVars, trueSize, concVars, appVars, req, upReq>>

\* the upstream fetch rejects with no catch block around it: the exception escapes
WorkerUpstreamFailure_uncaught ==
    /\ ppc = "forwarding"
    /\ resp' = [kind |-> "exception"]
    /\ ppc' = "done"
    /\ UNCHANGED <<readerVars, trueSize, concVars, appVars, req, upReq, upResp>>

\* await fetch(targetUrl, ...) rejects: the catch block answers
WorkerUpstreamFailure ==
    /\ ppc = "forwarding"
    /\ resp' = ProxyErrorResponse
    /\ ppc' = "done"
    /\ UNCHANGED <<readerVars, trueSize, concVars, appVars, req, upReq, upResp>>

-----------------------------------------------------------------------------
(* The remote range reader: analyzeMedia (app/services/mediainfo.ts) *)

Return(v) == [ok |-> TRUE, value |-> v]

Throw(message) == [ok |-> FALSE, error |-> message]

\* x.toFixed(0) of the non-negative fraction num / den
Rounded(num, den) == (2 * num + den) \div (2 * den)

\* x.toFixed(2) of the non-negative fraction num / den
ToFixed2(num, den) ==
    LET h == Rounded(num * 100, den)
    IN  Digits(h \div 100) \o <<".">> \o Digits((h % 100) \div 10) \o Digits(h % 10)

\* the browser's request to the proxy endpoint; it carries the page's session cookie
ProxyFetch(target, range) ==
    Request("GET", <<PROXY_ENDPOINT>>, Param(target),
            [n \in {"range", "cookie"} |->
                IF n = "range" THEN range ELSE <<"mediapeek_session=valid_session">>])

\* getSize of the prefetch variant with Content-Length tried before Content-Range
getSize_prefetch_lengthFirst(response) ==
    LET contentRange  == HGet(response.headers, "Content-Range")
        match         == MatchTotal(contentRange)
        contentLength == HGet(response.headers, "Content-Length")
    IN  IF ~Ok(response)
        THEN Throw(<<"Connection failed: ">> \o Digits(response.status))
        ELSE IF contentLength # <<>> THEN Return(ParseInt(contentLength))
        ELSE IF contentRange # <<>> /\ match # <<>> THEN Return(ParseInt(match))
        ELSE Return(UNKNOWN_SIZE_FALLBACK)

\* getSize of the prefetch variant, from the response on
getSize_prefetch(response) ==
    LET contentRange  == HGet(response.headers, "Content-Range")
        match         == MatchTotal(contentRange)
        contentLength == HGet(response.headers, "Content-Length")
    IN  IF ~Ok(response)
        THEN Throw(<<"Connection failed: ">> \o Digits(response.status))
        ELSE IF contentRange # <<>> /\ match # <<>> THEN Return(ParseInt(match))
        ELSE IF contentLength # <<>> THEN Return(ParseInt(contentLength))
        ELSE Return(UNKNOWN_SIZE_FALLBACK)

\* getSize of the direct variant, from the response on
getSize_direct(response) ==
    LET contentRange  == HGet(response.headers, "Content-Range")
        match         == MatchTotal(contentRange)
        contentLength == HGet(response.headers, "Content-Length")
    IN  IF ~Ok(response)
        THEN Throw(<<"Connection failed: ">> \o Digits(response.status)
                     \o <<" ", response.statusText>>)
        ELSE IF contentRange # <<>> /\ match # <<>> THEN Return(ParseInt(match))
        ELSE IF contentLength # <<>> /\ response.status = 200
        THEN Return(ParseInt(contentLength))
        ELSE Throw(<<"Could not determine file size. Server must support Range requests.">>)

NonRangeMessage == <<"Server returned full file (200) instead of partial (206). Aborting.">>

\* the Range header readChunk of the prefetch variant asks for
fetchRange_prefetch(size, offset) ==
    LET fetchSize == Max(size, MIN_FETCH_SIZE)
    IN  RangeHeader(offset, offset + fetchSize - 1)

\* the Range header readChunk of the direct variant asks for
fetchRange_direct(size, offset) == RangeHeader(offset, offset + size - 1)

\* readChunk of the prefetch variant with the slice back to size forgotten
readChunk_prefetch_unsliced(size, offset, response) ==
    IF ~Ok(response) THEN Throw(<<"Read error: ", response.statusText>>)
    ELSE IF response.status = 200 /\ offset > 0 THEN Throw(NonRangeMessage)
    ELSE Return(response.body)

\* readChunk of the prefetch variant, from the response on
readChunk_prefetch(size, offset, response) ==
    IF ~Ok(response) THEN Throw(<<"Read error: ", response.statusText>>)
    ELSE IF response.status = 200 /\ offset > 0 THEN Throw(NonRangeMessage)
    ELSE LET data == response.body
         IN  IF data.len > size THEN Return(Subarray(data, 0, size)) ELSE Return(data)

\* readChunk of the direct variant with the full-file guard forgotten
readChunk_direct_unguarded(size, offset, response) ==
    IF ~Ok(response)
    THEN Throw(<<"Read error: ">> \o Digits(response.status) \o <<" ", response.statusText>>)
    ELSE Return(response.body)

\* readChunk of the direct variant, from the response on
readChunk_direct(size, offset, response) ==
    IF ~Ok(response)
    THEN Throw(<<"Read error: ">> \o Digits(response.status) \o <<" ", response.statusText>>)
    ELSE IF response.status = 200 /\ offset > 0 THEN Throw(NonRangeMessage)
    ELSE Return(response.body)

\* progressStatus with the cap at 99 forgotten
progressStatus_uncapped(v, total) ==
    IF v = "prefetch"
    THEN <<"Analyzing... ">>
           \o Digits(Rounded(total * 100, ESTIMATED_METADATA_WORKLOAD))
           \o <<"%">>
    ELSE <<"Analyzing... (">> \o ToFixed2(total, 1024 * 1024) \o <<" MB read)">>

\* the status message readChunk reports before it fetches
progressStatus(v, total) ==
    IF v = "prefetch"
    THEN <<"Analyzing... ">>
           \o Digits(Min(99, Rounded(total * 100, ESTIMATED_METADATA_WORKLOAD)))
           \o <<"%">>
    ELSE <<"Analyzing... (">> \o ToFixed2(total, 1024 * 1024) \o <<" MB read)">>

\* the status message the catch block reports
catchStatus(v, message) == IF v = "prefetch" THEN <<"Error occurred">> ELSE message

getSize(v, response) ==
    IF v = "prefetch" THEN getSize_prefetch(response) ELSE getSize_direct(response)

fetchRange(v, size, offset) ==
    IF v = "prefetch" THEN fetchRange_prefetch(size, offset)
    ELSE fetchRange_direct(size, offset)

readChunk(v, size, offset, response) ==
    IF v = "prefetch" THEN readChunk_prefetch(size, offset, response)
    ELSE readChunk_direct(size, offset, response)

\* sizes of the resource at the origin
FileSizes == (0..MaxLen) \cup {MIN_FETCH_SIZE + MaxLen}

\* the (size, offset) arguments the analyzer calls readChunk with
ReadSizes == (1..MaxLen) \cup {MIN_FETCH_SIZE + 1, ESTIMATED_METADATA_WORKLOAD}

ReadOffsets == (0..MaxLen) \cup {MIN_FETCH_SIZE}

\* fetch(proxyUrl, ...): a new exchange with the worker starts
SendToWorker(request) ==
    /\ req' = request
    /\ upReq' = NoMsg
    /\ upResp' = NoMsg
    /\ resp' = NoMsg
    /\ ppc' = "idle"

\* Catch with mediainfo.close() forgotten
Catch_noClose(message) ==
    /\ lastStatus' = catchStatus(variant, message)
    /\ closed' = closed
    /\ err' = message
    /\ rpc' = "rejected"

\* the catch block of analyzeMedia: report, close the engine, rethrow
Catch(message) ==
    /\ lastStatus' = catchStatus(variant, message)
    /\ closed' = closed + 1
    /\ err' = message
    /\ rpc' = "rejected"

\* AnalyzeMedia with the new URL(url) check forgotten
AnalyzeMedia_noValidation(u) ==
    /\ rpc = "idle"
    /\ req = NoMsg
    /\ url' = u
    /\ lastStatus' = <<"Loading MediaInfo engine...">>
    /\ rpc' = "loading"
    /\ UNCHANGED <<variant, trueSize, concVars, appVars,
                   fileSize, probeStatus, curSize, curOffset, ret, err,
                   totalBytesDownloaded, fetchCount, closed, results,
                   req, upReq, upResp, resp, ppc>>

\* analyzeMedia(url, ...) up to the await of the module import
AnalyzeMedia(u) ==
    /\ rpc = "idle"
    /\ req = NoMsg
    /\ url' = u
    /\ IF ~ParseURL(u).ok
       THEN /\ lastStatus' = <<"Validating URL...">>
            /\ err' = <<"Invalid URL format">>
            /\ rpc' = "rejected"
       ELSE /\ lastStatus' = <<"Loading MediaInfo engine...">>
            /\ rpc' = "loading"
            /\ UNCHANGED err
    /\ UNCHANGED <<variant, trueSize, concVars, appVars,
                   fileSize, probeStatus, curSize, curOffset, ret,
                   totalBytesDownloaded, fetchCount, closed, results,
                   req, upReq, upResp, resp, ppc>>

\* await import('mediainfo.js') rejects
ModuleLoadFails ==
    /\ rpc = "loading"
    /\ err' = <<"Failed to load MediaInfo WASM module.">>
    /\ rpc' = "rejected"
    /\ UNCHANGED <<variant, trueSize, concVars, appVars,
                   fileSize, probeStatus, curSize, curOffset, ret,
                   totalBytesDownloaded, fetchCount, lastStatus, closed, results, url,
                   req, upReq, upResp, resp, ppc>>

\* the engine is created and getSize() sends its probe
GetSize ==
    /\ rpc = "loading"
    /\ lastStatus' = IF variant = "prefetch" THEN <<"Connecting...">>
                     ELSE <<"Connecting to file...">>
    /\ SendToWorker(ProxyFetch(url, RangeHeader(0, 0)))
    /\ fetchCount' = fetchCount + 1
    /\ rpc' = "getSize"
    /\ UNCHANGED <<variant, trueSize, concVars, appVars,
                   fileSize, probeStatus, curSize, curOffset, ret, err,
                   totalBytesDownloaded, closed, results, url>>

\* getSize() continues with the probe's response
GetSizeResponse ==
    /\ rpc = "getSize"
    /\ ppc = "done"
    /\ probeStatus' = resp.status
    /\ LET r == getSize(variant, resp)
       IN  IF r.ok
           THEN /\ fileSize' = r.value
                /\ rpc' = "analyzing"
                /\ UNCHANGED <<lastStatus, closed, err>>
           ELSE /\ Catch(r.error)
                /\ UNCHANGED fileSize
    /\ UNCHANGED <<variant, trueSize, concVars, appVars,
                   curSize, curOffset, ret,
                   totalBytesDownloaded, fetchCount, results, url,
                   req, upReq, upResp, resp, ppc>>

\* the analyzer calls readChunk(size, offset): count, report, fetch
ReadChunk(size, offset) ==
    /\ rpc = "analyzing"
    /\ fetchCount <= MaxReads
    /\ totalBytesDownloaded' = totalBytesDownloaded + size
    /\ lastStatus' = progressStatus(variant, totalBytesDownloaded + size)
    /\ SendToWorker(ProxyFetch(url, fetchRange(variant, size, offset)))
    /\ fetchCount' = fetchCount + 1
    /\ curSize' = size
    /\ curOffset' = offset
    /\ ret' = NoMsg
    /\ rpc' = "readChunk"
    /\ UNCHANGED <<variant, trueSize, concVars, appVars,
                   fileSize, probeStatus, err, closed, results, url>>

\* ReadChunkResponse that resolves the size again from every response
ReadChunkResponse_resize ==
    /\ rpc = "readChunk"
    /\ ppc = "done"
    /\ LET r == readChunk(variant, curSize, curOffset, resp)
           s == getSize(variant, resp)
       IN  IF r.ok
           THEN /\ ret' = r.value
                /\ rpc' = "analyzing"
                /\ fileSize' = IF s.ok THEN s.value ELSE fileSize
                /\ UNCHANGED <<lastStatus, closed, err>>
           ELSE /\ Catch(r.error)
                /\ UNCHANGED <<ret, fileSize>>
    /\ UNCHANGED <<variant, trueSize, concVars, appVars,
                   probeStatus, curSize, curOffset,
                   totalBytesDownloaded, fetchCount, results, url,
                   req, upReq, upResp, resp, ppc>>

\* readChunk continues with the response
ReadChunkResponse ==
    /\ rpc = "readChunk"
    /\ ppc = "done"
    /\ LET r == readChunk(variant, curSize, curOffset, resp)
       IN  IF r.ok
           THEN /\ ret' = r.value
                /\ rpc' = "analyzing"
                /\ UNCHANGED <<lastStatus, closed, err>>
           ELSE /\ Catch(r.error)
                /\ UNCHANGED ret
    /\ UNCHANGED <<variant, trueSize, concVars, appVars,
                   fileSize, probeStatus, curSize, curOffset,
                   totalBytesDownloaded, fetchCount, results, url,
                   req, upReq, upResp, resp, ppc>>

\* mediainfo.analyzeData resolves: onResult, 'Analysis complete!', return
AnalyzerReturns ==
    /\ rpc = "analyzing"
    /\ results' = results + 1
    /\ lastStatus' = <<"Analysis complete!">>
    /\ rpc' = "resolved"
    /\ UNCHANGED <<variant, trueSize, concVars, appVars,
                   fileSize, probeStatus, curSize, curOffset, ret, err,
                   totalBytesDownloaded, fetchCount, closed, url,
                   req, upReq, upResp, resp, ppc>>

\* mediainfo.analyzeData rejects for a reason of its own
AnalyzerThrows ==
    /\ rpc = "analyzing"
    /\ Catch(<<"analyzer error">>)
    /\ UNCHANGED <<variant, trueSize, concVars, appVars,
                   fileSize, probeStatus, curSize, curOffset, ret,
                   totalBytesDownloaded, fetchCount, results, url,
                   req, upReq, upResp, resp, ppc>>

-----------------------------------------------------------------------------
(* Any other client of the proxy endpoint *)

InboundValue(n) ==
    CASE n = "Range" -> RangeHeader(0, 0)
      [] n = "Cookie" -> <<"mediapeek_session=valid_session">>
      [] OTHER -> <<"https://app.example">>

ExternalRequests ==
    {Request(m, p, t, NewHeaders([n \in D |-> InboundValue(n)])) :
        m \in {"GET", "HEAD", "OPTIONS"},
        p \in {<<PROXY_ENDPOINT>>, <<PROXY_ENDPOINT, "/x">>},
        t \in {NullParam, Param(""), Param(BadUrl), Param(MediaUrl), Param(OtherUrl)},
        D \in SUBSET {"Range", "Cookie", "Origin"}}

\* a client sends a request to the worker
ClientRequest(r) ==
    /\ rpc = "idle"
    /\ req = NoMsg
    /\ SendToWorker(r)
    /\ UNCHANGED <<readerVars, trueSize, concVars, appVars>>

\* the response is delivered and the invocation ends
ClientReceive ==
    /\ rpc = "idle"
    /\ ppc = "done"
    /\ req' = NoMsg
    /\ upReq' = NoMsg
    /\ upResp' = NoMsg
    /\ resp' = NoMsg
    /\ ppc' = "idle"
    /\ UNCHANGED <<readerVars, trueSize, concVars, appVars>>

-----------------------------------------------------------------------------
(* The application routes behind the worker's default handler *)

\* env without AUTH_USER and AUTH_PASS
NoEnv == [AUTH_USER |-> "", AUTH_PASS |-> ""]

\* the values of env in the deployments considered
Envs == {NoEnv, [AUTH_USER |-> "alice", AUTH_PASS |-> "wonderland"]}

\* a || b on strings
OrElse(a, b) == IF a = "" THEN b ELSE a

\* an empty cookie jar, and a request without Cookie header
NoCookie == <<>>

SESSION_SECRET == "s3cr3t-k3y-replace-this-in-prod"

SESSION_MAX_AGE == 60 * 60 * 24 * 7

\* the signature the cookie's secret puts on a value: it can be made with the
\* secret only, and differs from value to value
Sign(value, secret) ==
    IF secret # SESSION_SECRET THEN "forged"
    ELSE IF value = "valid_session" THEN "hmac(valid_session)"
    ELSE "hmac()"

\* sessionCookie.serialize(value, {maxAge}): the value of a Set-Cookie header
Serialize(value, maxAge) ==
    <<"mediapeek_session=", value, ".", Sign(value, SESSION_SECRET), "; Max-Age=">>
        \o Digits(maxAge) \o <<"; Path=/; HttpOnly; SameSite=Lax">>

\* sessionCookie.parse(cookieHeader): the value of the cookie of that name when
\* its signature is the secret's, null otherwise
Parse(cookieHeader) ==
    IF Len(cookieHeader) < 4 \/ cookieHeader[1] # "mediapeek_session=" THEN NullParam
    ELSE IF cookieHeader[4] # Sign(cookieHeader[2], SESSION_SECRET) THEN NullParam
    ELSE Param(cookieHeader[2])

\* redirect(location, {headers})
Redirect(location, headers) ==
    Response(302, "Found", HSet(headers, "location", <<location>>), EmptyBody, "")

createUserSession(redirectTo) ==
    Redirect(redirectTo,
             NewHeaders([n \in {"Set-Cookie"} |->
                            Serialize("valid_session", SESSION_MAX_AGE)]))

\* requireUserSession: throws the redirect to /login, or returns the session
requireUserSession(request) ==
    LET session == Parse(HGet(request.headers, "Cookie"))
    IN  IF Falsy(session) THEN Throw(Redirect("/login", NoHeaders))
        ELSE Return(session.value)

logout ==
    Redirect("/login", NewHeaders([n \in {"Set-Cookie"} |-> Serialize("", 0)]))

\* a rendered page
Page(status, text) == Response(status, "", NoHeaders, EmptyBody, text)

\* the loader of the index route
loader(request) ==
    LET session == requireUserSession(request)
    IN  IF session.ok THEN Page(200, "MediaInfo") ELSE session.error

\* the action of the login route with the password compared alone
action_passwordOnly(request, e) ==
    LET validPass == OrElse(e.AUTH_PASS, "password")
    IN  IF request.form.password = validPass
        THEN createUserSession("/")
        ELSE Page(200, "Invalid credentials")

\* the action of the login route
action(request, e) ==
    LET validUser == OrElse(e.AUTH_USER, "admin")
        validPass == OrElse(e.AUTH_PASS, "password")
    IN  IF request.form.username = validUser /\ request.form.password = validPass
        THEN createUserSession("/")
        ELSE Page(200, "Invalid credentials")

\* the action of the logout route (routes/logout.tsx)
logoutAction == logout

\* requestHandler(request, {cloudflare: {env, ctx}}): the route table
requestHandler(request, e) ==
    CASE request.pathname = <<"/">> /\ request.method = "GET" -> loader(request)
      [] request.pathname = <<"/login">> /\ request.method = "POST" -> action(request, e)
      [] request.pathname = <<"/login">> /\ request.method = "GET" -> Page(200, "Login")
      [] request.pathname = <<"/logout">> /\ request.method = "POST" -> logoutAction
      [] OTHER -> Page(404, "Not Found")

\* the default branch of the worker's fetch: requestHandler(request, {cloudflare})
WorkerDelegate ==
    /\ ppc = "idle"
    /\ req.kind = "request"
    /\ ~IsProxyPath(req.pathname)
    /\ appReq' = req
    /\ resp' = requestHandler(req, env)
    /\ ppc' = "done"
    /\ UNCHANGED <<readerVars, trueSize, concVars, req, upReq, upResp, env, jar>>

\* the name=value part of a Set-Cookie value
CookiePair(setCookie) == IF Len(setCookie) >= 4 THEN SubSeq(setCookie, 1, 4) ELSE setCookie

\* the Max-Age attribute of a Set-Cookie value
MaxAgeOf(setCookie) ==
    IF Len(setCookie) >= 6 THEN ParseInt(SubSeq(setCookie, 6, Len(setCookie))) ELSE NaN

\* the Cookie header a browser sends for the cookie it keeps: none for no cookie
\* and for an expired one
CookieOf(j) == IF j = NoCookie \/ MaxAgeOf(j) = 0 THEN NoCookie ELSE CookiePair(j)

\* a cookie signed without the secret
ForgedCookie ==
    <<"mediapeek_session=", "valid_session", ".", Sign("valid_session", "guess")>>

NoForm == [username |-> "", password |-> ""]

AppRequest(method, pathname, targetUrl, cookie, form) ==
    [kind |-> "request", method |-> method, pathname |-> pathname,
     targetUrl |-> targetUrl,
     headers |-> IF cookie = NoCookie THEN NoHeaders
                 ELSE NewHeaders([n \in {"Cookie"} |-> cookie]),
     form |-> form]

\* the requests a client may send while its jar holds j
BrowserRequests(j) ==
    {AppRequest("GET", <<"/">>, NullParam, c, NoForm) :
        c \in {CookieOf(j), NoCookie, ForgedCookie, CookiePair(Serialize("", 0))}}
    \cup {AppRequest("POST", <<"/login">>, NullParam, CookieOf(j),
                     [username |-> u, password |-> p]) :
             u \in {"admin", "alice"}, p \in {"password", "wonderland"}}
    \cup {AppRequest("POST", <<"/logout">>, NullParam, CookieOf(j), NoForm)}
    \cup {AppRequest("GET", path, Param(MediaUrl), c, NoForm) :
             path \in {<<PROXY_ENDPOINT>>, <<PROXY_ENDPOINT, "/x">>, <<"/resources">>},
             c \in {CookieOf(j), NoCookie}}

\* is this Set-Cookie value one for the cookie named mediapeek_session, signed
\* by the application or unsigned as an origin may send it through the proxy
NamesSessionCookie(setCookie) ==
    Head(setCookie) \in {"mediapeek_session=", "mediapeek_session=evil"}

\* the browser sends a request to the worker
BrowserRequest(r) ==
    /\ rpc = "idle"
    /\ req = NoMsg
    /\ SendToWorker(r)
    /\ appReq' = NoMsg
    /\ UNCHANGED <<readerVars, trueSize, concVars, env, jar>>

\* the browser receives the response and keeps the session cookie it sets
BrowserReceive ==
    /\ rpc = "idle"
    /\ ppc = "done"
    /\ jar' = LET setCookie == HGet(resp.headers, "Set-Cookie")
              IN  IF setCookie # <<>> /\ NamesSessionCookie(setCookie)
                  THEN setCookie
                  ELSE jar
    /\ req' = NoMsg
    /\ upReq' = NoMsg
    /\ upResp' = NoMsg
    /\ resp' = NoMsg
    /\ ppc' = "idle"
    /\ appReq' = NoMsg
    /\ UNCHANGED <<readerVars, trueSize, concVars, env>>

-----------------------------------------------------------------------------
(* Concurrent invocations.  Every call of analyzeMedia has its own locals      *)
(* (proxyUrl, fileSize, totalBytesDownloaded and the closures over them), and  *)
(* every request is served by its own invocation of the worker's fetch, with   *)
(* its own locals (targetUrl, headers, upstreamResponse, responseHeaders).     *)

\* the analyzeMedia invocations that run side by side
Analyses == {1, 2}

\* readChunk calls each of them makes
MaxReadsEach == 1

\* the url invocation a is called with
UrlOf(a) == IF a = 1 THEN MediaUrl ELSE OtherUrl

\* the byte length of the resource at an origin url
SizeAt(u) == IF u = MediaUrl THEN 1 ELSE 2

\* the answers of an origin that adds no headers of its own
PlainOriginResponses(r, S) ==
    RangeAnswers(r, S, NoHeaders) \cup FullAnswers(r, S, NoHeaders)
        \cup ErrorAnswers(r, S, NoHeaders)

RECURSIVE Sum(_)
Sum(s) == IF s = <<>> THEN 0 ELSE Head(s) + Sum(Tail(s))

\* the locals of an invocation before its first statement; reads is the history
\* of the sizes its own readChunk was called with
NewAnalysis ==
    [rpc |-> "idle", fileSize |-> NaN, totalBytesDownloaded |-> 0,
     lastStatus |-> <<>>, err |-> <<>>, curSize |-> 0, curOffset |-> 0, reads |-> <<>>]

\* no request in flight
NoExchange == [req |-> NoMsg, resp |-> NoMsg]

\* analyzeMedia(url, ...) of invocation a up to the await of getSize's fetch
ConcurrentAnalyzeMedia(a) ==
    /\ analyses[a].rpc = "idle"
    /\ ParseURL(UrlOf(a)).ok
    /\ analyses' = [analyses EXCEPT
          ![a].rpc = "getSize",
          ![a].lastStatus = IF variant = "prefetch" THEN <<"Connecting...">>
                            ELSE <<"Connecting to file...">>]
    /\ exchanges' = [exchanges EXCEPT
          ![a] = [req |-> ProxyFetch(UrlOf(a), RangeHeader(0, 0)), resp |-> NoMsg]]
    /\ UNCHANGED <<readerVars, trueSize, req, upReq, upResp, resp, ppc, appVars>>

\* the worker's fetch serving the request of invocation a, from its arrival to
\* its return
ConcurrentWorkerFetch(a) ==
    /\ exchanges[a].req # NoMsg
    /\ exchanges[a].resp = NoMsg
    /\ IsProxyPath(exchanges[a].req.pathname)
    /\ LET request == exchanges[a].req
       IN  \E answer \in
               IF EarlyResponse(request) # NoMsg
               THEN {EarlyResponse(request)}
               ELSE {ProxyErrorResponse} \cup
                    {ForwardedResponse(upstreamResponse) :
                        upstreamResponse \in
                            PlainOriginResponses(UpstreamRequest(request),
                                                 SizeAt(request.targetUrl.value))} :
               exchanges' = [exchanges EXCEPT ![a].resp = answer]
    /\ UNCHANGED <<readerVars, trueSize, req, upReq, upResp, resp, ppc, analyses, appVars>>

\* the catch block of invocation a
ConcurrentCatch(a, message) ==
    [analyses EXCEPT ![a].rpc = "rejected",
                     ![a].err = message,
                     ![a].lastStatus = catchStatus(variant, message)]

\* getSize() of invocation a continues with the probe's response
ConcurrentGetSizeResponse(a) ==
    /\ analyses[a].rpc = "getSize"
    /\ exchanges[a].resp # NoMsg
    /\ LET r == getSize(variant, exchanges[a].resp)
       IN  analyses' = IF r.ok
                       THEN [analyses EXCEPT ![a].rpc = "analyzing",
                                             ![a].fileSize = r.value]
                       ELSE ConcurrentCatch(a, r.error)
    /\ exchanges' = [exchanges EXCEPT ![a] = NoExchange]
    /\ UNCHANGED <<readerVars, trueSize, req, upReq, upResp, resp, ppc, appVars>>

\* ConcurrentReadChunk with totalBytesDownloaded declared at module level, one
\* counter for every invocation
ConcurrentReadChunk_moduleCounter(a, size, offset) ==
    /\ analyses[a].rpc = "analyzing"
    /\ Len(analyses[a].reads) < MaxReadsEach
    /\ LET shared == Sum([b \in 1..Cardinality(Analyses) |->
                             analyses[b].totalBytesDownloaded]) + size
       IN  analyses' = [analyses EXCEPT
              ![a].rpc = "readChunk",
              ![a].totalBytesDownloaded = shared,
              ![a].lastStatus = progressStatus(variant, shared),
              ![a].curSize = size,
              ![a].curOffset = offset,
              ![a].reads = Append(@, size)]
    /\ exchanges' = [exchanges EXCEPT
          ![a] = [req |-> ProxyFetch(UrlOf(a), fetchRange(variant, size, offset)),
                  resp |-> NoMsg]]
    /\ UNCHANGED <<readerVars, trueSize, req, upReq, upResp, resp, ppc, appVars>>

\* the analyzer of invocation a calls readChunk(size, offset): count, report, fetch
ConcurrentReadChunk(a, size, offset) ==
    /\ analyses[a].rpc = "analyzing"
    /\ Len(analyses[a].reads) < MaxReadsEach
    /\ analyses' = [analyses EXCEPT
          ![a].rpc = "readChunk",
          ![a].totalBytesDownloaded = @ + size,
          ![a].lastStatus =
              progressStatus(variant, analyses[a].totalBytesDownloaded + size),
          ![a].curSize = size,
          ![a].curOffset = offset,
          ![a].reads = Append(@, size)]
    /\ exchanges' = [exchanges EXCEPT
          ![a] = [req |-> ProxyFetch(UrlOf(a), fetchRange(variant, size, offset)),
                  resp |-> NoMsg]]
    /\ UNCHANGED <<readerVars, trueSize, req, upReq, upResp, resp, ppc, appVars>>

\* readChunk of invocation a continues with the response
ConcurrentReadChunkResponse(a) ==
    /\ analyses[a].rpc = "readChunk"
    /\ exchanges[a].resp # NoMsg
    /\ LET r == readChunk(variant, analyses[a].curSize, analyses[a].curOffset,
                          exchanges[a].resp)
       IN  analyses' = IF r.ok
                       THEN [analyses EXCEPT ![a].rpc = "analyzing"]
                       ELSE ConcurrentCatch(a, r.error)
    /\ exchanges' = [exchanges EXCEPT ![a] = NoExchange]
    /\ UNCHANGED <<readerVars, trueSize, req, upReq, upResp, resp, ppc, appVars>>

\* mediainfo.analyzeData of invocation a resolves
ConcurrentAnalyzerReturns(a) ==
    /\ analyses[a].rpc = "analyzing"
    /\ analyses' = [analyses EXCEPT ![a].rpc = "resolved",
                                    ![a].lastStatus = <<"Analysis complete!">>]
    /\ UNCHANGED <<readerVars, trueSize, req, upReq, upResp, resp, ppc, exchanges, appVars>>

-----------------------------------------------------------------------------
(* Specifications *)

\* the state before the first call, whatever env holds
InitCommon ==
    /\ variant \in {"prefetch", "direct"}
    /\ trueSize \in FileSizes
    /\ rpc = "idle"
    /\ fileSize = NaN
    /\ probeStatus = 0
    /\ curSize = 0
    /\ curOffset = 0
    /\ ret = NoMsg
    /\ err = <<>>
    /\ totalBytesDownloaded = 0
    /\ fetchCount = 0
    /\ lastStatus = <<>>
    /\ closed = 0
    /\ results = 0
    /\ url = ""
    /\ req = NoMsg
    /\ upReq = NoMsg
    /\ upResp = NoMsg
    /\ resp = NoMsg
    /\ ppc = "idle"
    /\ analyses = [a \in Analyses |-> NewAnalysis]
    /\ exchanges = [a \in Analyses |-> NoExchange]
    /\ jar = NoCookie
    /\ appReq = NoMsg

Init == InitCommon /\ env = NoEnv

Worker == WorkerFetch \/ WorkerUpstreamResponse \/ WorkerUpstreamFailure

Reader ==
    \/ \E u \in {MediaUrl, OtherUrl, BadUrl} : AnalyzeMedia(u)
    \/ ModuleLoadFails
    \/ GetSize
    \/ GetSizeResponse
    \/ \E size \in ReadSizes, offset \in ReadOffsets : ReadChunk(size, offset)
    \/ ReadChunkResponse
    \/ AnalyzerReturns
    \/ AnalyzerThrows

\* one analysis session reading through the proxy
Next == Reader \/ Worker

Spec == Init /\ [][Next]_vars

\* arbitrary clients of the proxy endpoint
NextProxy == (\E r \in ExternalRequests : ClientRequest(r)) \/ ClientReceive \/ Worker

SpecProxy == Init /\ [][NextProxy]_vars

\* analyses that run side by side, each request served by its own invocation
NextConcurrent ==
    \E a \in Analyses :
        \/ ConcurrentAnalyzeMedia(a)
        \/ ConcurrentWorkerFetch(a)
        \/ ConcurrentGetSizeResponse(a)
        \/ \E size \in 1..2 : ConcurrentReadChunk(a, size, 0)
        \/ ConcurrentReadChunkResponse(a)
        \/ ConcurrentAnalyzerReturns(a)

InitConcurrent == Init /\ trueSize = 0

SpecConcurrent == InitConcurrent /\ [][NextConcurrent]_vars

\* a browser in front of the whole worker: the proxy branch and the routes
InitApp == InitCommon /\ variant = "prefetch" /\ trueSize = 1 /\ env \in Envs

NextApp ==
    \/ \E r \in BrowserRequests(jar) : BrowserRequest(r)
    \/ BrowserReceive
    \/ WorkerDelegate
    \/ Worker

SpecApp == InitApp /\ [][NextApp]_vars

-----------------------------------------------------------------------------
(* Properties of the range reader *)

SizeUnknownMessage ==
    <<"Could not determine file size. Server must support Range requests.">>

\* the total a Content-Range value ends in, <<>> when it ends in none
TotalOf(response) == MatchTotal(HGet(response.headers, "Content-Range"))

\* getSize() has consumed the probe's response and no readChunk was called since
ProbeAnswered == fetchCount = 1 /\ rpc # "getSize"

\* the last readChunk call has consumed its response
ReadAnswered == fetchCount >= 2 /\ rpc # "readChunk"

\* C1: against an origin that honours Range (the probe and the read are answered
\* 206), a readChunk(size, offset) whose window lies inside the resolved size
\* returns exactly the window [offset, offset + size) of the origin's content.
C1_ValidWindowExactBytes ==
    (/\ ReadAnswered
     /\ probeStatus = 206
     /\ resp.status = 206
     /\ curOffset + curSize <= fileSize)
    => ret = Buffer(curOffset, curSize)

\* a read inside the resolved size at a non-zero offset for which the prefetch
\* variant fetched more than was asked and sliced it back
C1_Witness ==
    /\ ReadAnswered
    /\ probeStatus = 206
    /\ resp.status = 206
    /\ variant = "prefetch"
    /\ curOffset > 0
    /\ curOffset + curSize <= fileSize
    /\ resp.body.len > curSize
    /\ ret = Buffer(curOffset, curSize)

\* C2: when a ranged read with offset > 0 is answered 200, readChunk throws the
\* non-range-server error and analyzeMedia rejects with it after closing the
\* engine; and once analyzeMedia has rejected, no request is sent any more.
C2_FullBodyAborts ==
    [][/\ (/\ rpc = "readChunk"
           /\ rpc' # "readChunk"
           /\ resp.status = 200
           /\ curOffset > 0)
          => (/\ rpc' = "rejected"
              /\ err' = NonRangeMessage
              /\ ret' = NoMsg
              /\ closed' = closed + 1)
       /\ rpc = "rejected"
          => (/\ rpc' = "rejected"
              /\ fetchCount' = fetchCount
              /\ UNCHANGED <<req, upReq, upResp, resp, ppc>>)]_vars

\* a session rejected with the non-range-server error
C2_Witness ==
    /\ rpc = "rejected"
    /\ err = NonRangeMessage
    /\ resp.status = 200
    /\ curOffset > 0
    /\ fetchCount >= 2

\* C3: no readChunk(size, offset) returns more than size bytes.
C3_NeverMoreThanSize ==
    (ReadAnswered /\ ret # NoMsg) => ret.len <= curSize

\* C4: a read answered 206 with offset < S and offset + size > S, S the resolved
\* size, returns exactly S - offset bytes and does not fail.
C4_TailRead ==
    (/\ ReadAnswered
     /\ resp.status = 206
     /\ curOffset < fileSize
     /\ curOffset + curSize > fileSize)
    => (ret # NoMsg /\ ret.len = fileSize - curOffset)

\* C5: in the prefetch variant a readChunk call whose window lies inside the
\* window the previous call fetched sends no request.
C5_SecondReadFromCache ==
    [][(/\ variant = "prefetch"
        /\ rpc = "analyzing"
        /\ ret # NoMsg
        /\ rpc' = "readChunk"
        /\ curOffset' >= resp.body.from
        /\ curOffset' + curSize' <= resp.body.from + resp.body.len)
       => fetchCount' = fetchCount]_vars

\* C6 as stated: a probe response whose Content-Range ends in /TOTAL makes
\* getSize return TOTAL, whatever its status.
C6_TotalWhateverStatus ==
    (ProbeAnswered /\ TotalOf(resp) # <<>>) => fileSize = ParseInt(TotalOf(resp))

\* C6 as amended: a probe response with a success status whose Content-Range ends
\* in /TOTAL makes getSize return TOTAL, and a probe response without a success
\* status makes getSize fail with the connection error, whatever its headers.
C6_TotalOnSuccessStatus ==
    ProbeAnswered =>
        /\ (Ok(resp) /\ TotalOf(resp) # <<>>) =>
               (/\ fileSize = ParseInt(TotalOf(resp))
                /\ err \in {<<>>, <<"analyzer error">>})
        /\ ~Ok(resp) =>
               (/\ rpc = "rejected"
                /\ fileSize = NaN
                /\ Head(err) = "Connection failed: "
                /\ SubSeq(err, 2, 4) = Digits(resp.status))

\* a probe answered 200 with a Content-Range total, from which the size was taken
C6_Witness ==
    /\ ProbeAnswered
    /\ resp.status = 200
    /\ TotalOf(resp) # <<>>
    /\ trueSize > 1
    /\ fileSize = trueSize

\* C7: a probe response with a success status, no Content-Range total and no
\* Content-Length makes getSize fail with the size-unknown error: the analyzer is
\* not started and no size is returned.
C7_UnknownSizeFails ==
    (/\ ProbeAnswered
     /\ Ok(resp)
     /\ TotalOf(resp) = <<>>
     /\ ~HHas(resp.headers, "Content-Length"))
    => (/\ rpc = "rejected"
        /\ err = SizeUnknownMessage
        /\ fileSize = NaN)

-----------------------------------------------------------------------------
(* Properties of the proxy gateway *)

\* C8: the request sent to the origin carries no Cookie header and the response
\* returned to the caller carries no Content-Disposition header.
C8_NoCookieNoDisposition ==
    /\ upReq # NoMsg => \A n \in DOMAIN upReq.headers : LowerCase(n) # "cookie"
    /\ resp # NoMsg => \A n \in DOMAIN resp.headers : LowerCase(n) # "content-disposition"

\* a request that came with a Cookie was forwarded and the origin's answer, which
\* carried a Content-Disposition, was returned
C8_Witness ==
    /\ ppc = "done"
    /\ HHas(req.headers, "Cookie")
    /\ upReq # NoMsg
    /\ upResp # NoMsg
    /\ HHas(upResp.headers, "Content-Disposition")
    /\ resp.status = upResp.status

AllowList == {"content-length", "content-range", "accept-ranges", "last-modified", "etag"}

\* C9: a header of the upstream response is copied to the proxy response only if
\* it is content-length, content-range, accept-ranges, last-modified or etag.
C9_OnlyAllowListCopied ==
    (ppc = "done" /\ upResp # NoMsg) =>
        \A n \in DOMAIN upResp.headers :
            (n \in DOMAIN resp.headers /\ resp.headers[n] = upResp.headers[n])
                => LowerCase(n) \in AllowList

\* C10: an OPTIONS request is never forwarded, and it is answered with status 200
\* or 204, the CORS headers and an empty body, with or without the url parameter.
C10_OptionsPreflight ==
    (req # NoMsg /\ req.method = "OPTIONS") =>
        /\ upReq = NoMsg
        /\ ppc # "forwarding"
        /\ ppc = "done" =>
              /\ resp.status \in {200, 204}
              /\ \A n \in DOMAIN corsHeaders : HGet(resp.headers, n) = corsHeaders[n]
              /\ resp.body = EmptyBody
              /\ resp.text = ""

\* an answered OPTIONS request that had no url parameter
C10_Witness ==
    /\ ppc = "done"
    /\ req.method = "OPTIONS"
    /\ ~req.targetUrl.present
    /\ resp.status = 200


\* C11: a request that is not OPTIONS and whose url parameter is missing or empty
\* is never forwarded to the origin and is answered with status 400.
C11_MissingUrl400 ==
    (/\ req # NoMsg
     /\ req.method # "OPTIONS"
     /\ (~req.targetUrl.present \/ req.targetUrl.value = ""))
    => (/\ upReq = NoMsg
        /\ ppc # "forwarding"
        /\ ppc = "done" => resp.status = 400)

\* an answered GET whose url parameter was present and empty
C11_Witness ==
    /\ ppc = "done"
    /\ req.method = "GET"
    /\ req.targetUrl.present
    /\ req.targetUrl.value = ""
    /\ resp.status = 400

\* C12: every request the handler has finished with was answered by a response
\* (no exception left the handler); when the upstream fetch rejected, or the url
\* parameter did not parse as a URL, the response has status 502 and a text body.
C12_FailureAnswers502 ==
    ppc = "done" =>
        /\ resp.kind = "response"
        /\ (\/ (upReq # NoMsg /\ upResp = NoMsg)
            \/ (/\ req.method # "OPTIONS"
                /\ req.targetUrl.present
                /\ req.targetUrl.value # ""
                /\ ~ParseURL(req.targetUrl.value).ok))
           => (/\ resp.status = 502
               /\ resp.text # ""
               /\ resp.body = EmptyBody)

\* a forwarded request whose upstream fetch rejected
C12_Witness ==
    /\ ppc = "done"
    /\ upReq # NoMsg
    /\ upResp = NoMsg
    /\ resp.status = 502


\* The proxy under the scheduling the worker runtime gives: a request that has
\* arrived is handled, and a response that was returned is delivered.  Whether
\* and when the origin answers or the connection fails is up to the origin and
\* the network: nothing in the handler bounds the wait of await fetch(targetUrl).
SpecProxyLive ==
    /\ Init
    /\ [][NextProxy]_vars
    /\ WF_vars(WorkerFetch)
    /\ WF_vars(ClientReceive)

\* C13: every request that reached the worker is eventually answered, also when
\* the origin never answers.
C13_EveryRequestAnswered == (req # NoMsg) ~> (ppc = "done")


\* C14: every response of the proxy branch carries Access-Control-Allow-Origin *,
\* the allowed methods GET, HEAD, OPTIONS and the allowed request headers Range,
\* Content-Type, User-Agent, whatever headers of these names the origin sent.
C14_CorsOnEveryResponse ==
    ppc = "done" =>
        /\ HGet(resp.headers, "Access-Control-Allow-Origin") = <<"*">>
        /\ HGet(resp.headers, "Access-Control-Allow-Methods") = <<"GET, HEAD, OPTIONS">>
        /\ HGet(resp.headers, "Access-Control-Allow-Headers")
              = <<"Range, Content-Type, User-Agent">>

\* a forwarded response whose origin sent an Access-Control-Allow-Origin of its own
C14_Witness ==
    /\ ppc = "done"
    /\ upResp # NoMsg
    /\ HHas(upResp.headers, "Access-Control-Allow-Origin")
    /\ HGet(upResp.headers, "Access-Control-Allow-Origin") # <<"*">>
    /\ HGet(resp.headers, "Access-Control-Allow-Origin") = <<"*">>

\* C15 as stated: the status of every proxy response is 200, 206, 400 or 502.
C15_StatusOneOfFour ==
    ppc = "done" => resp.status \in {200, 206, 400, 502}

\* C15 as amended: a forwarded response has the status of the upstream response;
\* every other proxy response has status 200 (OPTIONS), 400 or 502.
C15_StatusPassedThrough ==
    ppc = "done" =>
        IF upResp # NoMsg
        THEN resp.status = upResp.status
        ELSE /\ resp.status \in {200, 400, 502}
             /\ resp.status = 200 <=> req.method = "OPTIONS"

\* an upstream 404 returned as 404
C15_Witness ==
    /\ ppc = "done"
    /\ upResp # NoMsg
    /\ upResp.status = 404
    /\ resp.status = 404

\* C16: every forwarded upstream response has Content-Type
\* application/octet-stream, whatever Content-Type the origin sent.
C16_ForcedContentType ==
    (ppc = "done" /\ upResp # NoMsg) =>
        HGet(resp.headers, "Content-Type") = <<"application/octet-stream">>

\* a forwarded response whose origin sent video/mp4
C16_Witness ==
    /\ ppc = "done"
    /\ upResp # NoMsg
    /\ HGet(upResp.headers, "Content-Type") = <<"video/mp4">>
    /\ HGet(resp.headers, "Content-Type") = <<"application/octet-stream">>


\* the analysis was rejected by a failure of getSize or of readChunk
FetchFailed ==
    /\ rpc = "rejected"
    /\ fetchCount >= 1
    /\ resp # NoMsg
    /\ LET r == IF fetchCount = 1 THEN getSize(variant, resp)
                ELSE readChunk(variant, curSize, curOffset, resp)
       IN  ~r.ok /\ err = r.error

\* C17: after a failure of size resolution or of a chunk read the analysis is
\* rejected with the reason of the failure, the status callback has last been
\* given that same reason, and no further request is sent.
C17_FailureSurfacedVerbatim ==
    FetchFailed =>
        /\ lastStatus = err
        /\ closed = 1
        /\ ~ENABLED Reader

\* C18: analyzeMedia called with a string that new URL() rejects fails with
\* 'Invalid URL format' and nothing else happens: no request to the proxy, no
\* module load, no engine to close.
C18_InvalidUrlFailsFirst ==
    (rpc # "idle" /\ ~ParseURL(url).ok) =>
        /\ rpc = "rejected"
        /\ err = <<"Invalid URL format">>
        /\ lastStatus = <<"Validating URL...">>
        /\ fetchCount = 0
        /\ req = NoMsg
        /\ closed = 0

C18_Witness ==
    /\ url = BadUrl
    /\ rpc = "rejected"
    /\ err = <<"Invalid URL format">>

\* C19: while a readChunk(size, offset) of the prefetch variant waits for its
\* response, the Range it asked for starts at offset and ends no later than the
\* last byte, S - 1, of the resolved size S.
C19_RangeClippedToSize ==
    (variant = "prefetch" /\ rpc = "readChunk") =>
        LET rng == ParseRange(HGet(req.headers, "Range"))
        IN  /\ rng.ok
            /\ rng.from = curOffset
            /\ rng.to <= fileSize - 1

\* C20: a size resolved from a 206 probe response whose Content-Range gives no
\* total is never the Content-Length of that response.
C20_LengthOnlyFromFullBody ==
    (/\ ProbeAnswered
     /\ rpc = "analyzing"
     /\ resp.status = 206
     /\ TotalOf(resp) = <<>>
     /\ HHas(resp.headers, "Content-Length"))
    => fileSize # ParseInt(HGet(resp.headers, "Content-Length"))


\* C21: getSize is called once, as the first fetch of the session and before any
\* readChunk; the size it resolves is set by the answer to that call only, and
\* no later step, readChunk answers included, changes it.
C21_SizeResolvedOnce ==
    [][/\ (rpc' = "getSize" /\ rpc # "getSize") => (fetchCount = 0 /\ fileSize = NaN)
       /\ (rpc' = "readChunk" /\ rpc # "readChunk") => (fetchCount >= 1 /\ rpc = "analyzing")
       /\ fileSize' # fileSize => (rpc = "getSize" /\ fetchCount = 1 /\ fileSize = NaN)
       /\ rpc \notin {"idle", "loading", "getSize"} => fileSize' = fileSize]_vars

\* a readChunk was answered by a response from which getSize would resolve
\* another size than the session's
C21_Witness ==
    /\ ReadAnswered
    /\ rpc = "analyzing"
    /\ ret # NoMsg
    /\ getSize(variant, resp).ok
    /\ getSize(variant, resp).value # fileSize


\* does the text s contain the text t
Contains(s, t) ==
    \E i \in 1..(Len(s) - Len(t) + 1) : SubSeq(s, i, i + Len(t) - 1) = t

\* C22: a readChunk whose fetch was answered with a non-success status fails
\* with a read error whose message names that status, and hands no bytes to
\* the analyzer.
C22_ReadErrorNamesStatus ==
    (ReadAnswered /\ ~Ok(resp)) =>
        /\ rpc = "rejected"
        /\ ret = NoMsg
        /\ Head(err) = "Read error: "
        /\ Contains(err, Digits(resp.status))


\* the steps a request may take through the handler: the origin is contacted
\* once, from the idle position and for a request that has a url parameter, and
\* a response is produced once, on the step that completes the request
RequestSteps ==
    [][/\ <<ppc, ppc'>> \in {<<"idle", "idle">>, <<"idle", "forwarding">>,
                             <<"idle", "done">>, <<"forwarding", "forwarding">>,
                             <<"forwarding", "done">>, <<"done", "done">>,
                             <<"done", "idle">>}
       /\ (upReq' # upReq /\ upReq' # NoMsg) =>
             /\ upReq = NoMsg
             /\ ppc = "idle" /\ ppc' = "forwarding"
             /\ req' = req
             /\ req.targetUrl.present /\ req.targetUrl.value # ""
             /\ upReq'.url = req.targetUrl.value
       /\ (resp' # resp /\ resp' # NoMsg) =>
             /\ resp = NoMsg
             /\ ppc # "done" /\ ppc' = "done"
             /\ req' = req
       /\ (ppc' = "done") => resp' # NoMsg]_vars

\* C23: every inbound proxy request goes idle -> (validated) -> forwarding ->
\* done or straight to an error answer; the origin is contacted at most once and
\* only for a request with a url parameter; and the request ends with exactly
\* one response, so a request that is being forwarded is eventually answered.
C23_RequestStateMachine ==
    /\ RequestSteps
    /\ (ppc = "forwarding") ~> (ppc = "done" /\ resp # NoMsg)


\* what invocation a holds depends on its own calls and its own request only:
\* its counter is the sum of the sizes of its own readChunk calls, the progress
\* it reports is the progress of that counter, its request names its own url and
\* the response it is given answers that request
OwnState(a, analysis, exchange) ==
    /\ analysis.totalBytesDownloaded = Sum(analysis.reads)
    /\ analysis.rpc = "readChunk" =>
          analysis.lastStatus = progressStatus(variant, Sum(analysis.reads))
    /\ exchange.req # NoMsg =>
          exchange.req.targetUrl.value = UrlOf(a)
    /\ (exchange.resp # NoMsg /\ TotalOf(exchange.resp) # <<>>) =>
          ParseInt(TotalOf(exchange.resp)) = SizeAt(UrlOf(a))

\* C24: with analyses and proxy requests interleaved in any order, a step
\* changes the locals of one invocation only, the resolved size of an
\* invocation is set from the response to its own probe, and the counter, the
\* progress report and the response of every invocation are those of its own
\* calls.
C24_NoCrossTalk ==
    [][\A a \in Analyses :
          /\ OwnState(a, analyses'[a], exchanges'[a])
          /\ \A b \in Analyses \ {a} :
                \/ (analyses'[a] = analyses[a] /\ exchanges'[a] = exchanges[a])
                \/ (analyses'[b] = analyses[b] /\ exchanges'[b] = exchanges[b])
          /\ analyses'[a].fileSize # analyses[a].fileSize =>
                /\ analyses[a].rpc = "getSize"
                /\ exchanges[a].resp # NoMsg
                /\ exchanges[a].req.targetUrl.value = UrlOf(a)]_vars

\* two analyses read at the same time, one still waiting for its response
C24_Witness ==
    /\ analyses[1].rpc = "readChunk"
    /\ analyses[2].rpc = "readChunk"
    /\ analyses[1].totalBytesDownloaded = 1
    /\ analyses[2].totalBytesDownloaded = 2
    /\ exchanges[1].resp # NoMsg
    /\ exchanges[2].resp = NoMsg


\* the number in a status message of the form 'Analyzing... <number>%'
PercentOf(status) == ParseInt(SubSeq(status, 2, Len(status) - 1))

\* p is counter / ESTIMATED_METADATA_WORKLOAD * 100 to the nearest integer,
\* capped at 99
IsCappedPercent(p, counter) ==
    IF 2 * counter * 100 >= (2 * 99 - 1) * ESTIMATED_METADATA_WORKLOAD
    THEN p = 99
    ELSE /\ 2 * p * ESTIMATED_METADATA_WORKLOAD <= 2 * counter * 100 + ESTIMATED_METADATA_WORKLOAD
         /\ 2 * counter * 100 < 2 * p * ESTIMATED_METADATA_WORKLOAD + ESTIMATED_METADATA_WORKLOAD

C26_CloseOnceOnFailure ==
    /\ (rpc = "rejected" /\ fetchCount >= 1) => (closed = 1 /\ results = 0)
    /\ (rpc = "rejected" /\ fetchCount = 0) => (closed = 0 /\ results = 0)
    /\ rpc = "resolved" =>
          (results = 1 /\ closed = 0 /\ lastStatus = <<"Analysis complete!">>)
    /\ rpc \notin {"rejected", "resolved"} =>
          (closed = 0 /\ results = 0 /\ lastStatus # <<"Analysis complete!">>)

\* the analyzer failed after a read that was answered
C26_Witness ==
    /\ rpc = "rejected"
    /\ fetchCount >= 2
    /\ ret # NoMsg
    /\ err = <<"analyzer error">>
    /\ closed = 1


-----------------------------------------------------------------------------
(* Properties of the routes and the session *)

\* does the path begin with /resources/proxy
BeginsWithProxy(pathname) == Len(pathname) >= 1 /\ Head(pathname) = PROXY_ENDPOINT

\* does the cookie header carry a session requireUserSession accepts
ValidSession(cookieHeader) ==
    /\ Len(cookieHeader) = 4
    /\ cookieHeader[2] = "valid_session"
    /\ cookieHeader[4] = "hmac(valid_session)"

\* C27: a request whose path begins with /resources/proxy is answered by the
\* proxy branch (CORS headers, no call of the application handler) and, with a
\* url parameter, is forwarded to the origin whether or not it carries a
\* session; a request for any other path is answered by the application handler
\* with the same request, and no upstream request is ever made for it.
C27_ProxyBypassesRoutes ==
    /\ ppc = "forwarding" => BeginsWithProxy(req.pathname)
    /\ ppc = "done" =>
          IF BeginsWithProxy(req.pathname)
          THEN /\ appReq = NoMsg
               /\ HGet(resp.headers, "Access-Control-Allow-Origin") = <<"*">>
               /\ upReq # NoMsg
               /\ resp.status # 302
          ELSE /\ appReq = req
               /\ upReq = NoMsg
               /\ upResp = NoMsg
               /\ resp = requestHandler(req, env)

\* a proxy request of a longer path and without any cookie was served from the
\* origin
C27_Witness ==
    /\ ppc = "done"
    /\ req.pathname = <<PROXY_ENDPOINT, "/x">>
    /\ ~HHas(req.headers, "Cookie")
    /\ upResp # NoMsg
    /\ resp.status = 200
    /\ resp.body.len > 0

\* the login form of the request matches the configured credentials
CredentialsMatch(request) ==
    /\ request.method = "POST"
    /\ request.pathname = <<"/login">>
    /\ request.form.username = (IF env.AUTH_USER = "" THEN "admin" ELSE env.AUTH_USER)
    /\ request.form.password = (IF env.AUTH_PASS = "" THEN "password" ELSE env.AUTH_PASS)

\* what holds of every answered request
AnsweredRequest ==
    ppc = "done" =>
        /\ ValidSession(CookiePair(HGet(resp.headers, "Set-Cookie"))) =>
              CredentialsMatch(req)
        /\ (/\ req.pathname = <<"/">>
            /\ req.method = "GET"
            /\ ~ValidSession(HGet(req.headers, "Cookie")))
           => (/\ resp.status = 302
               /\ HGet(resp.headers, "location") = <<"/login">>
               /\ ~HHas(resp.headers, "Set-Cookie"))

====
